---- MODULE Spec2Model ----
(***************************************************************************)
(* The share-link registry of CheckMate (SharingService), the user store   *)
(* it reads (AuthService, localStorage key checkmate_users) and the       *)
(* viewer screen (SharedCalendarView) that presents a token to it.         *)
(*                                                                         *)
(* Conventions.  A timestamp is a natural number (the order of ISO         *)
(* strings and of Date objects); a nullable timestamp is a set holding     *)
(* at most one of them, Null being the empty set.  A nullable string is a  *)
(* string, JsNull and JsUndefined being the strings "null" and             *)
(* "undefined".  A JS object with optional keys is a function whose        *)
(* DOMAIN holds the keys that are present.  A nullable object returned by  *)
(* a call is a set holding at most one object.                             *)
(***************************************************************************)
EXTENDS Integers, Sequences, FiniteSets, TLC

(* ------------------------------ bounds -------------------------------- *)

\* how many distinct results generateShareId can have
NumIds == 2
\* the clock runs from 0 to MaxTime
MaxTime == 1
\* accessCount is capped (the code's counter is unbounded)
MaxAccess == 2

(* ------------------------------ values -------------------------------- *)

Null == {}
JsNull == "null"
JsUndefined == "undefined"
EmptyObject == {}

Times == 0..MaxTime

\* the results generateShareId can have (16 characters of 62 in the code)
GenerateShareId == 1..NumIds

\* a share id no call of generateShareId returns, and the falsy share id
UnknownId == NumIds + 1
NoShareId == 0
\* the share id "constructor": no call of generateShareId returns it either,
\* but it names a property every object inherits from Object.prototype
InheritedId == NumIds + 2

PermKeys == {"canViewEvents", "canViewAvailability", "canViewStatus", "canViewDetails"}

\* the permissions objects that set a single key
SinglePermissions == UNION {[{k} -> BOOLEAN] : k \in PermKeys}

\* the records of checkmate_users: demoUsers, keyed by email
DemoEmail == "demo@checkmate.com"
DemoUserId == "demo_user_1"
DemoEvents == <<"event-1", "event-2", "event-3">>
DefaultAvailability == {<<"timezone", "America/New_York">>, <<"bufferTime", "15">>}

DemoUser ==
  [id |-> DemoUserId, email |-> DemoEmail, fullName |-> "Demo User",
   availability |-> DefaultAvailability, events |-> DemoEvents,
   currentStatus |-> "Available"]

demoUsers == [e \in {DemoEmail} |-> DemoUser]

\* AuthService.register: the record of a new account (no events, no status)
NewEmail == "ann@example.com"
NewUserId == "user_1_abc"
FullNameOf(email) == IF email = DemoEmail THEN "Demo User" ELSE "Ann"

NewUser(email) ==
  [id |-> NewUserId, email |-> email, fullName |-> FullNameOf(email),
   availability |-> DefaultAvailability]

Emails == {DemoEmail, NewEmail}

\* a property name every object inherits from Object.prototype, and the object
\* found under it (the function Object, whose own name is "Object")
ObjectKey == "constructor"
ObjectMember == [name |-> "Object"]

(* ------------------------------- state -------------------------------- *)

VARIABLES
  shareLinks,   \* this.shareLinks: share id -> share data (in memory)
  stored,       \* localStorage checkmate_share_links (persisted)
  users,        \* localStorage checkmate_users: key -> user record
  now,          \* the wall clock, new Date()
  inherited,    \* the properties assigned to the object every map inherits
  otherLinks,   \* this.shareLinks of a second SharingService (another tab)
  ret           \* the last call: its name, arguments and result

vars == <<shareLinks, stored, users, now, inherited, otherLinks, ret>>

Put(f, k, v) == [x \in (DOMAIN f) \cup {k} |-> IF x = k THEN v ELSE f[x]]
Remove(f, k) == [x \in (DOMAIN f) \ {k} |-> f[x]]
Has(obj, k) == k \in DOMAIN obj
\* obj.k: undefined when obj has no such property
Field(obj, k) == IF Has(obj, k) THEN obj[k] ELSE JsUndefined

\* the object found under an inherited name, with what was assigned to it
InheritedObject ==
  [k \in (DOMAIN ObjectMember) \cup (DOMAIN inherited) |->
     IF k \in DOMAIN inherited THEN inherited[k] ELSE ObjectMember[k]]

NoRet == [op |-> "none", shareId |-> NoShareId, userId |-> "", ok |-> FALSE,
          token |-> Null, data |-> Null, links |-> {}, error |-> JsNull]

Result(op, shareId) == [NoRet EXCEPT !.op = op, !.shareId = shareId]

(* --------------------------- SharingService --------------------------- *)

\* a saveShareLinks that never reaches the store
SaveShareLinksNowhere(links, written) == stored

\* JSON.stringify(this.shareLinks): a property whose value is undefined is
\* left out of the document; every other value of a link is kept as it is
Stringify(links) ==
  [i \in DOMAIN links |->
     IF links[i].userId = JsUndefined
     THEN [k \in (DOMAIN links[i]) \ {"userId"} |-> links[i][k]]
     ELSE links[i]]

\* JSON.parse of the document: a link without userId reads undefined for it
Parse(document) ==
  [i \in DOMAIN document |->
     IF "userId" \in DOMAIN document[i] THEN document[i]
     ELSE [k \in (DOMAIN document[i]) \cup {"userId"} |->
             IF k = "userId" THEN JsUndefined ELSE document[i][k]]]

\* saveShareLinks: JSON.stringify of the whole map into localStorage; a
\* setItem that throws is caught and logged, the old document stays
SaveShareLinks(links, written) == IF written THEN Stringify(links) ELSE stored

\* loadShareLinks: the map parsed from localStorage, {} when nothing is stored
LoadShareLinks == Parse(stored)

\* getUserData: users[userId] || null.  users is the object JSON.parse returns:
\* users[userId] is its own property userId or, failing that, the property it
\* inherits from Object.prototype
GetUserData(userId) ==
  IF userId \in DOMAIN users THEN {users[userId]}
  ELSE IF userId = ObjectKey THEN {InheritedObject}
  ELSE Null

ShareLinkUrl(shareId) == <<"?shared=", shareId>>

\* a generateShareLink whose canViewDetails is opt-out like the other three
NewPermissionsOptOut(permissions) ==
  [k \in PermKeys |-> ~(Has(permissions, k) /\ ~permissions[k])]

\* the permissions object generateShareLink builds from the requested one
NewPermissions(permissions) ==
  [canViewEvents |-> ~(Has(permissions, "canViewEvents") /\ ~permissions["canViewEvents"]),
   canViewAvailability |->
     ~(Has(permissions, "canViewAvailability") /\ ~permissions["canViewAvailability"]),
   canViewStatus |-> ~(Has(permissions, "canViewStatus") /\ ~permissions["canViewStatus"]),
   canViewDetails |-> Has(permissions, "canViewDetails") /\ permissions["canViewDetails"]]

\* a generateShareLink that drops the requested expiry
NewShareDataWithoutExpiry(shareId, userId, permissions, expiresAt) ==
  [id |-> shareId, userId |-> userId, link |-> ShareLinkUrl(shareId),
   permissions |-> NewPermissions(permissions),
   createdAt |-> now, expiresAt |-> Null,
   isActive |-> TRUE, accessCount |-> 0, lastAccessed |-> Null]

NewShareData(shareId, userId, permissions, expiresAt) ==
  [id |-> shareId, userId |-> userId, link |-> ShareLinkUrl(shareId),
   permissions |-> NewPermissions(permissions),
   createdAt |-> now, expiresAt |-> expiresAt,
   isActive |-> TRUE, accessCount |-> 0, lastAccessed |-> Null]

\* generateShareLink(userId, permissions); shareId is what generateShareId
\* returned, expiresAt is permissions.expiresAt || null
GenerateShareLink(shareId, userId, permissions, expiresAt, written) ==
  LET shareData == NewShareData(shareId, userId, permissions, expiresAt)
      links == Put(shareLinks, shareId, shareData)
  IN /\ shareLinks' = links
     /\ stored' = SaveShareLinks(links, written)
     /\ ret' = [Result("generateShareLink", shareId) EXCEPT
                  !.userId = userId, !.ok = TRUE, !.token = {shareData}]
     /\ UNCHANGED <<users, now, inherited, otherLinks>>

\* a lookup that hides the links that were revoked
LookupActiveOnly(links, shareId) ==
  IF shareId \in DOMAIN links /\ links[shareId].isActive THEN {links[shareId]} ELSE Null

\* this.shareLinks[shareId]: the map's own property shareId or, failing that,
\* the property it inherits; undefined (Null) otherwise
Lookup(links, shareId) ==
  IF shareId \in DOMAIN links THEN {links[shareId]}
  ELSE IF shareId = InheritedId THEN {InheritedObject}
  ELSE Null

\* getShareLink(shareId)
GetShareLink(shareId) ==
  /\ ret' = [Result("getShareLink", shareId) EXCEPT
               !.ok = Lookup(shareLinks, shareId) # Null,
               !.token = Lookup(shareLinks, shareId)]
  /\ UNCHANGED <<shareLinks, stored, users, now, inherited, otherLinks>>

\* a getUserShareLinks that leaves out the links that were revoked
UserShareLinksActiveOnly(links, userId) ==
  {links[i] : i \in {j \in DOMAIN links : links[j].userId = userId /\ links[j].isActive}}

\* getUserShareLinks(userId)
UserShareLinks(links, userId) == {links[i] : i \in {j \in DOMAIN links : links[j].userId = userId}}

GetUserShareLinks(userId) ==
  /\ ret' = [Result("getUserShareLinks", NoShareId) EXCEPT
               !.userId = userId, !.ok = TRUE,
               !.links = UserShareLinks(shareLinks, userId)]
  /\ UNCHANGED <<shareLinks, stored, users, now, inherited, otherLinks>>

\* a revokeShareLink that deactivates every link of the map
RevokedEverything(links, shareId) ==
  [i \in DOMAIN links |-> [links[i] EXCEPT !.isActive = FALSE]]

\* userLinks.reduce((sum, link) => sum + link.accessCount, 0)
RECURSIVE TotalViews(_)
TotalViews(userLinks) ==
  IF userLinks = {} THEN 0
  ELSE LET link == CHOOSE l \in userLinks : TRUE
       IN link.accessCount + TotalViews(userLinks \ {link})

\* getSharingStats(userId)
GetSharingStats(userId) ==
  LET userLinks == UserShareLinks(shareLinks, userId)
  IN /\ ret' = [Result("getSharingStats", NoShareId) EXCEPT
                  !.userId = userId, !.ok = TRUE,
                  !.data = {[totalLinks |-> Cardinality(userLinks),
                             activeLinks |-> Cardinality({l \in userLinks : l.isActive}),
                             totalViews |-> TotalViews(userLinks)]},
                  !.links = userLinks]
     /\ UNCHANGED <<shareLinks, stored, users, now, inherited, otherLinks>>

\* revokeShareLink(shareId)
Revoked(links, shareId) == [links EXCEPT ![shareId].isActive = FALSE]

RevokeShareLink(shareId, written) ==
  IF shareId \in DOMAIN shareLinks
  THEN LET links == Revoked(shareLinks, shareId)
       IN /\ shareLinks' = links
          /\ stored' = SaveShareLinks(links, written)
          /\ ret' = [Result("revokeShareLink", shareId) EXCEPT !.ok = TRUE]
          /\ UNCHANGED <<users, now, inherited, otherLinks>>
  ELSE IF Lookup(shareLinks, shareId) # Null
  THEN /\ inherited' = Put(inherited, "isActive", FALSE)
       /\ stored' = SaveShareLinks(shareLinks, written)
       /\ ret' = [Result("revokeShareLink", shareId) EXCEPT !.ok = TRUE]
       /\ UNCHANGED <<shareLinks, users, now, otherLinks>>
  ELSE /\ ret' = Result("revokeShareLink", shareId)
       /\ UNCHANGED <<shareLinks, stored, users, now, inherited, otherLinks>>

\* an update that resets the fields it is not given to their defaults
SpreadOverDefaults(old, permissions) ==
  [k \in PermKeys |->
     IF k \in DOMAIN permissions THEN permissions[k] ELSE k # "canViewDetails"]

\* { ...old, ...permissions }
Spread(old, permissions) ==
  [k \in (DOMAIN old) \cup (DOMAIN permissions) |->
     IF k \in DOMAIN permissions THEN permissions[k] ELSE old[k]]

\* updateShareLinkPermissions(shareId, permissions)
UpdateShareLinkPermissions(shareId, permissions, written) ==
  IF shareId \in DOMAIN shareLinks
  THEN LET links == [shareLinks EXCEPT
                       ![shareId].permissions = Spread(@, permissions)]
       IN /\ shareLinks' = links
          /\ stored' = SaveShareLinks(links, written)
          /\ ret' = [Result("updateShareLinkPermissions", shareId) EXCEPT !.ok = TRUE]
          /\ UNCHANGED <<users, now, inherited, otherLinks>>
  ELSE IF Lookup(shareLinks, shareId) # Null
  THEN /\ inherited' = Put(inherited, "permissions",
                           Spread(IF Has(inherited, "permissions")
                                  THEN inherited["permissions"] ELSE <<>>,
                                  permissions))
       /\ stored' = SaveShareLinks(shareLinks, written)
       /\ ret' = [Result("updateShareLinkPermissions", shareId) EXCEPT !.ok = TRUE]
       /\ UNCHANGED <<shareLinks, users, now, otherLinks>>
  ELSE /\ ret' = Result("updateShareLinkPermissions", shareId)
       /\ UNCHANGED <<shareLinks, stored, users, now, inherited, otherLinks>>

\* an accessSharedSchedule that forgets the isActive test
AccessibleIgnoringRevocation(links, shareId) == shareId \in DOMAIN links

\* the condition under which accessSharedSchedule counts and returns the link
\* (the inherited object's isActive is undefined or false, never truthy)
Accessible(links, shareId) == shareId \in DOMAIN links /\ links[shareId].isActive

\* an accessSharedSchedule that counts but does not stamp lastAccessed
AccessedWithoutStamp(links, shareId) ==
  IF shareId \in DOMAIN links /\ links[shareId].isActive
  THEN [links EXCEPT ![shareId].accessCount = @ + 1]
  ELSE links

\* an accessSharedSchedule that stamps lastAccessed but does not count
AccessedWithoutCount(links, shareId) ==
  IF shareId \in DOMAIN links /\ links[shareId].isActive
  THEN [links EXCEPT ![shareId].lastAccessed = {now}]
  ELSE links

\* the map after accessSharedSchedule(shareId)
Accessed(links, shareId) ==
  IF Accessible(links, shareId)
  THEN [links EXCEPT ![shareId].accessCount = @ + 1,
                     ![shareId].lastAccessed = {now}]
  ELSE links

\* what accessSharedSchedule(shareId) returns: the link object or null
AccessResult(links, shareId) ==
  IF Accessible(links, shareId) THEN {Accessed(links, shareId)[shareId]} ELSE Null

\* the model's cap on the counter: a counting access needs room below it
CountBelowCap(shareId) ==
  Accessible(shareLinks, shareId) => shareLinks[shareId].accessCount < MaxAccess

\* accessSharedSchedule(shareId)
AccessSharedSchedule(shareId, written) ==
  /\ CountBelowCap(shareId)
  /\ shareLinks' = Accessed(shareLinks, shareId)
  /\ stored' = IF Accessible(shareLinks, shareId)
               THEN SaveShareLinks(Accessed(shareLinks, shareId), written)
               ELSE stored
  /\ ret' = [Result("accessSharedSchedule", shareId) EXCEPT
               !.ok = Accessible(shareLinks, shareId),
               !.token = AccessResult(shareLinks, shareId)]
  /\ UNCHANGED <<users, now, inherited, otherLinks>>

\* a getSharedScheduleData without its expiry test
ExpiredNever(shareLink) == FALSE

\* shareLink.expiresAt && new Date() > new Date(shareLink.expiresAt)
Expired(shareLink) == \E t \in shareLink.expiresAt : now > t

\* an email field that is not filtered
ViewEmailAlways(shareLink, userData) == Field(userData, "email")

\* email: shareLink.permissions.canViewDetails ? userData.email : null
ViewEmail(shareLink, userData) ==
  IF shareLink.permissions["canViewDetails"] THEN Field(userData, "email") ELSE JsNull

\* an events field that redacts each event instead of dropping the list
ViewEventsRedacted(shareLink, userData) ==
  IF Has(userData, "events")
  THEN (IF shareLink.permissions["canViewEvents"] THEN userData.events
        ELSE [i \in DOMAIN userData.events |-> "busy"])
  ELSE <<>>

\* events: shareLink.permissions.canViewEvents ? userData.events || [] : []
ViewEvents(shareLink, userData) ==
  IF shareLink.permissions["canViewEvents"]
  THEN (IF Has(userData, "events") THEN userData.events ELSE <<>>)
  ELSE <<>>

\* availability: canViewAvailability ? userData.availability || {} : {}
ViewAvailability(shareLink, userData) ==
  IF shareLink.permissions["canViewAvailability"]
  THEN (IF Has(userData, "availability") THEN userData.availability ELSE EmptyObject)
  ELSE EmptyObject

\* a status field filtered by the availability permission
ViewStatusByAvailability(shareLink, userData) ==
  IF shareLink.permissions["canViewAvailability"]
  THEN Field(userData, "currentStatus")
  ELSE JsNull

\* currentStatus: canViewStatus ? userData.currentStatus : null
ViewStatus(shareLink, userData) ==
  IF shareLink.permissions["canViewStatus"]
  THEN Field(userData, "currentStatus")
  ELSE JsNull

\* a view that reports the count the link had before this access
SharedDataWithCountBefore(shareLink, userData) ==
  [user |-> [name |-> Field(userData, "fullName"), email |-> ViewEmail(shareLink, userData)],
   events |-> ViewEvents(shareLink, userData),
   availability |-> ViewAvailability(shareLink, userData),
   currentStatus |-> ViewStatus(shareLink, userData),
   shareInfo |-> [createdAt |-> shareLink.createdAt,
                  accessCount |-> shareLink.accessCount - 1,
                  permissions |-> shareLink.permissions]]

\* the object getSharedScheduleData builds from the link and the user data
SharedData(shareLink, userData) ==
  [user |-> [name |-> Field(userData, "fullName"), email |-> ViewEmail(shareLink, userData)],
   events |-> ViewEvents(shareLink, userData),
   availability |-> ViewAvailability(shareLink, userData),
   currentStatus |-> ViewStatus(shareLink, userData),
   shareInfo |-> [createdAt |-> shareLink.createdAt,
                  accessCount |-> shareLink.accessCount,
                  permissions |-> shareLink.permissions]]

\* what getSharedScheduleData(shareId) returns, given the link
\* accessSharedSchedule returned
SharedScheduleData(accessed) ==
  IF accessed = Null THEN Null
  ELSE LET shareLink == CHOOSE l \in accessed : TRUE
       IN IF Expired(shareLink) THEN Null
          ELSE IF GetUserData(shareLink.userId) = Null THEN Null
          ELSE {SharedData(shareLink, CHOOSE u \in GetUserData(shareLink.userId) : TRUE)}

\* getSharedScheduleData(shareId)
GetSharedScheduleData(shareId, written) ==
  LET data == SharedScheduleData(AccessResult(shareLinks, shareId))
  IN /\ CountBelowCap(shareId)
     /\ shareLinks' = Accessed(shareLinks, shareId)
     /\ stored' = IF Accessible(shareLinks, shareId)
                  THEN SaveShareLinks(Accessed(shareLinks, shareId), written)
                  ELSE stored
     /\ ret' = [Result("getSharedScheduleData", shareId) EXCEPT
                  !.ok = data # Null, !.data = data]
     /\ UNCHANGED <<users, now, inherited, otherLinks>>

\* a clear that removes checkmate_users as well (demoData.clearAllData does)
ClearAllData ==
  /\ shareLinks' = <<>>
  /\ stored' = <<>>
  /\ users' = <<>>
  /\ ret' = [Result("clearAllSharingData", NoShareId) EXCEPT !.ok = TRUE]
  /\ UNCHANGED <<now, inherited, otherLinks>>

\* a clear that empties this.shareLinks and leaves localStorage as it is
ClearMemoryOnly ==
  /\ shareLinks' = <<>>
  /\ ret' = [Result("clearAllSharingData", NoShareId) EXCEPT !.ok = TRUE]
  /\ UNCHANGED <<stored, users, now, inherited, otherLinks>>

\* clearAllSharingData()
ClearAllSharingData ==
  /\ shareLinks' = <<>>
  /\ stored' = <<>>
  /\ ret' = [Result("clearAllSharingData", NoShareId) EXCEPT !.ok = TRUE]
  /\ UNCHANGED <<users, now, inherited, otherLinks>>

(* ------------------------- SharedCalendarView ------------------------- *)

InvalidLinkMessage == "Invalid share link"
UnavailableMessage == "Share link not found or expired"

\* the effect loadSharedSchedule runs when the screen mounts with shareId
LoadSharedSchedule(shareId, written) ==
  IF shareId = NoShareId
  THEN /\ ret' = [Result("loadSharedSchedule", shareId) EXCEPT !.error = InvalidLinkMessage]
       /\ UNCHANGED <<shareLinks, stored, users, now, inherited, otherLinks>>
  ELSE LET data == SharedScheduleData(AccessResult(shareLinks, shareId))
       IN /\ CountBelowCap(shareId)
          /\ shareLinks' = Accessed(shareLinks, shareId)
          /\ stored' = IF Accessible(shareLinks, shareId)
                       THEN SaveShareLinks(Accessed(shareLinks, shareId), written)
                       ELSE stored
          /\ ret' = [Result("loadSharedSchedule", shareId) EXCEPT
                       !.ok = data # Null, !.data = data,
                       !.error = IF data # Null THEN JsNull ELSE UnavailableMessage]
          /\ UNCHANGED <<users, now, inherited, otherLinks>>

(* ------------------------ SharingService instances -------------------- *)

\* new SharingService(): the page is loaded again, this.shareLinks is what
\* loadShareLinks returns
Construct ==
  /\ shareLinks' = LoadShareLinks
  /\ ret' = [Result("constructor", NoShareId) EXCEPT !.ok = TRUE]
  /\ UNCHANGED <<stored, users, now, inherited, otherLinks>>

\* new SharingService() in another tab
OtherConstruct ==
  /\ otherLinks' = LoadShareLinks
  /\ ret' = [Result("other.constructor", NoShareId) EXCEPT !.ok = TRUE]
  /\ UNCHANGED <<shareLinks, stored, users, now, inherited>>

\* accessSharedSchedule(shareId) in the other tab
OtherAccessSharedSchedule(shareId, written) ==
  /\ Accessible(otherLinks, shareId) => otherLinks[shareId].accessCount < MaxAccess
  /\ otherLinks' = Accessed(otherLinks, shareId)
  /\ stored' = IF Accessible(otherLinks, shareId)
               THEN SaveShareLinks(Accessed(otherLinks, shareId), written)
               ELSE stored
  /\ ret' = [Result("other.accessSharedSchedule", shareId) EXCEPT
               !.ok = Accessible(otherLinks, shareId),
               !.token = AccessResult(otherLinks, shareId)]
  /\ UNCHANGED <<shareLinks, users, now, inherited>>

\* revokeShareLink(shareId) in the other tab
OtherRevokeShareLink(shareId, written) ==
  IF shareId \in DOMAIN otherLinks
  THEN /\ otherLinks' = Revoked(otherLinks, shareId)
       /\ stored' = SaveShareLinks(Revoked(otherLinks, shareId), written)
       /\ ret' = [Result("other.revokeShareLink", shareId) EXCEPT !.ok = TRUE]
       /\ UNCHANGED <<shareLinks, users, now, inherited>>
  ELSE /\ ret' = Result("other.revokeShareLink", shareId)
       /\ UNCHANGED <<shareLinks, stored, users, now, inherited, otherLinks>>

(* --------------------------- ScheduleSharing -------------------------- *)

\* the states of the form newSharePermissions: four booleans, expiresAt null
FormPermissions == [PermKeys -> BOOLEAN]

\* handleCreateShare with currentUser the account stored under email:
\* generateShareLink(currentUser.id, newSharePermissions), then the list
\* getUserShareLinks(currentUser.id) is shown
HandleCreateShare(shareId, email, permissions, written) ==
  /\ email \in DOMAIN users
  /\ LET userId == users[email].id
         shareData == NewShareData(shareId, userId, permissions, Null)
         links == Put(shareLinks, shareId, shareData)
     IN /\ shareLinks' = links
        /\ stored' = SaveShareLinks(links, written)
        /\ ret' = [Result("handleCreateShare", shareId) EXCEPT
                     !.userId = userId, !.ok = TRUE, !.token = {shareData},
                     !.links = UserShareLinks(links, userId)]
        /\ UNCHANGED <<users, now, inherited, otherLinks>>

(* ----------------------------- AuthService ---------------------------- *)

\* register(userData): this.users[email] = newUser, saved to checkmate_users
Register(email) ==
  /\ email \notin DOMAIN users
  /\ users' = Put(users, email, NewUser(email))
  /\ ret' = [Result("register", NoShareId) EXCEPT !.userId = email, !.ok = TRUE]
  /\ UNCHANGED <<shareLinks, stored, now, inherited, otherLinks>>

\* deleteAccount(): delete this.users[currentUser.email]
DeleteAccount(email) ==
  /\ email \in DOMAIN users
  /\ users' = Remove(users, email)
  /\ ret' = [Result("deleteAccount", NoShareId) EXCEPT !.userId = email, !.ok = TRUE]
  /\ UNCHANGED <<shareLinks, stored, now, inherited, otherLinks>>

(* -------------------------------- clock ------------------------------- *)

Tick ==
  /\ now < MaxTime
  /\ now' = now + 1
  /\ ret' = Result("tick", NoShareId)
  /\ UNCHANGED <<shareLinks, stored, users, inherited, otherLinks>>

(* ---------------------------- specification --------------------------- *)

\* permissions.expiresAt || null: no expiry, or one the clock can pass
ExpiryChoices == {Null} \cup {{t} : t \in 0..(MaxTime - 1)}

\* the store after populateDemoData, before any share link exists
Init ==
  /\ shareLinks = <<>>
  /\ stored = <<>>
  /\ users = demoUsers
  /\ now = 0
  /\ inherited = <<>>
  /\ otherLinks = <<>>
  /\ ret = NoRet

\* what the calls of a specification draw their arguments from: ids the
\* results of generateShareId, owners the userId arguments, requests and
\* updates the permissions arguments, writes the outcomes of setItem
\* (a share id presented to the registry here is one of ids or UnknownId,
\* which is no key of this.shareLinks and names no property the map inherits)
StoreService(ids, owners, requests, updates, writes) ==
  \/ \E shareId \in ids, userId \in owners, permissions \in requests,
        expiresAt \in ExpiryChoices, written \in writes :
       GenerateShareLink(shareId, userId, permissions, expiresAt, written)
  \/ \E shareId \in ids \cup {UnknownId} : GetShareLink(shareId)
  \/ \E userId \in owners : GetUserShareLinks(userId)
  \/ \E shareId \in ids \cup {UnknownId}, written \in writes :
       RevokeShareLink(shareId, written)
  \/ \E shareId \in ids \cup {UnknownId}, permissions \in updates, written \in writes :
       UpdateShareLinkPermissions(shareId, permissions, written)
  \/ \E shareId \in ids \cup {UnknownId}, written \in writes :
       AccessSharedSchedule(shareId, written)
  \/ \E shareId \in ids \cup {UnknownId}, written \in writes :
       GetSharedScheduleData(shareId, written)
  \/ ClearAllSharingData

\* the service over a store whose writes succeed
Service(ids, owners, requests, updates) ==
  StoreService(ids, owners, requests, updates, {TRUE})

\* The lifecycle specification: several share ids, two owners (one a key of
\* the user store, one not), few permission objects, a fixed user store.
PermRequests == {<<>>, [canViewDetails |-> TRUE]}
PermUpdates == {[canViewDetails |-> TRUE]}
OwnerIds == {DemoEmail, DemoUserId}

Next ==
  \/ Service(GenerateShareId, OwnerIds, PermRequests, PermUpdates)
  \/ Tick

Spec == Init /\ [][Next]_vars

\* The projection specification: one share id, whose permissions the updates
\* take through all sixteen combinations, an owner with events and status, one
\* without, and an owner id that is no account but a name every object
\* inherits; accounts that come and go.
ViewIds == {1}
ViewOwnerIds == {DemoEmail, NewEmail, ObjectKey}

NextView ==
  \/ Service(ViewIds, ViewOwnerIds, {<<>>}, SinglePermissions)
  \/ \E shareId \in ViewIds \cup {UnknownId, NoShareId} : LoadSharedSchedule(shareId, TRUE)
  \/ Register(NewEmail)
  \/ \E email \in Emails : DeleteAccount(email)
  \/ Tick

SpecView == Init /\ [][NextView]_vars

\* The caller specification: one share id; tokens issued from the sharing
\* screen for the account signed in, and by callers that pass an empty or no
\* owner id; the share id "constructor" presented to every operation.
EmptyOwner == ""
ApiIds == {1}
ApiOwnerIds == {EmptyOwner, JsUndefined}
ScreenPermissions ==
  {p \in FormPermissions : p["canViewEvents"] /\ p["canViewAvailability"] /\ p["canViewStatus"]}

NextApi ==
  \/ Service(ApiIds, ApiOwnerIds, {<<>>}, PermUpdates)
  \/ \E shareId \in ApiIds, email \in Emails, permissions \in ScreenPermissions :
       HandleCreateShare(shareId, email, permissions, TRUE)
  \/ GetShareLink(InheritedId)
  \/ RevokeShareLink(InheritedId, TRUE)
  \/ \E permissions \in PermUpdates :
       UpdateShareLinkPermissions(InheritedId, permissions, TRUE)
  \/ AccessSharedSchedule(InheritedId, TRUE)
  \/ GetSharedScheduleData(InheritedId, TRUE)
  \/ Register(NewEmail)
  \/ \E email \in Emails : DeleteAccount(email)
  \/ Tick

SpecApi == Init /\ [][NextApi]_vars

\* The store specification: one share id and one owner over a store whose
\* writes can fail (setItem throws, saveShareLinks catches).
StoreIds == {1}

NextStore ==
  \/ StoreService(StoreIds, {DemoEmail}, {<<>>}, PermUpdates, BOOLEAN)
  \/ Tick

SpecStore == Init /\ [][NextStore]_vars

\* The issue specification: one share id and one owner, issue with every
\* partial permissions object a caller can request, then the calls that read
\* the token or revoke it.
AllPermRequests == UNION {[keys -> BOOLEAN] : keys \in SUBSET PermKeys}

NextIssue ==
  \/ \E shareId \in StoreIds, permissions \in AllPermRequests,
        expiresAt \in ExpiryChoices :
       GenerateShareLink(shareId, DemoEmail, permissions, expiresAt, TRUE)
  \/ \E shareId \in StoreIds \cup {UnknownId} : GetShareLink(shareId)
  \/ GetUserShareLinks(DemoEmail)
  \/ \E shareId \in StoreIds \cup {UnknownId} : RevokeShareLink(shareId, TRUE)
  \/ ClearAllSharingData

SpecIssue == Init /\ [][NextIssue]_vars

\* The token specification: one share id issued for either of two owners,
\* with or without expiry, its permissions taken through all sixteen
\* combinations by single-field updates; a fixed user store.
TokenOwnerIds == {DemoEmail, DemoUserId}

NextToken ==
  \/ Service(StoreIds, TokenOwnerIds, {<<>>}, SinglePermissions)
  \/ Tick

SpecToken == Init /\ [][NextToken]_vars

\* The revocation specification: several share ids of one owner, issued,
\* read, accessed and revoked, at one time of the clock.
NextRevoke ==
  \/ \E shareId \in GenerateShareId, expiresAt \in ExpiryChoices :
       GenerateShareLink(shareId, DemoEmail, <<>>, expiresAt, TRUE)
  \/ \E shareId \in GenerateShareId \cup {UnknownId} : GetShareLink(shareId)
  \/ GetUserShareLinks(DemoEmail)
  \/ \E shareId \in GenerateShareId \cup {UnknownId} : RevokeShareLink(shareId, TRUE)
  \/ \E shareId \in GenerateShareId \cup {UnknownId} : AccessSharedSchedule(shareId, TRUE)
  \/ ClearAllSharingData

SpecRevoke == Init /\ [][NextRevoke]_vars

\* The listing specification: several share ids, issued without expiry for
\* either of two owners, accessed and revoked; the lists and the statistics.
NextList ==
  \/ \E shareId \in GenerateShareId, userId \in TokenOwnerIds :
       GenerateShareLink(shareId, userId, <<>>, Null, TRUE)
  \/ \E userId \in TokenOwnerIds : GetUserShareLinks(userId)
  \/ \E userId \in TokenOwnerIds : GetSharingStats(userId)
  \/ \E shareId \in GenerateShareId : RevokeShareLink(shareId, TRUE)
  \/ \E shareId \in GenerateShareId : AccessSharedSchedule(shareId, TRUE)
  \/ ClearAllSharingData

SpecList == Init /\ [][NextList]_vars

\* The two-tab specification: two SharingService instances over the same
\* localStorage, each with the map it loaded when it was constructed; one
\* share id, issued without expiry, accessed and revoked from either tab.
NextTabs ==
  \/ \E shareId \in StoreIds : GenerateShareLink(shareId, DemoEmail, <<>>, Null, TRUE)
  \/ \E shareId \in StoreIds : AccessSharedSchedule(shareId, TRUE)
  \/ \E shareId \in StoreIds : RevokeShareLink(shareId, TRUE)
  \/ Construct
  \/ OtherConstruct
  \/ \E shareId \in StoreIds : OtherAccessSharedSchedule(shareId, TRUE)
  \/ \E shareId \in StoreIds : OtherRevokeShareLink(shareId, TRUE)
  \/ Tick

SpecTabs == Init /\ [][NextTabs]_vars

(* ------------------------------- claims ------------------------------- *)

RegistryOps ==
  {"generateShareLink", "getShareLink", "getUserShareLinks", "revokeShareLink",
   "updateShareLinkPermissions", "accessSharedSchedule", "getSharedScheduleData"}
AccessOps == {"accessSharedSchedule", "getSharedScheduleData", "loadSharedSchedule"}
ProjectionOps == {"getSharedScheduleData", "loadSharedSchedule"}

IsRevoked(links, id) == id \in DOMAIN links /\ ~links[id].isActive
\* expiresAt is set and earlier than the current time
PastExpiry(link) == link.expiresAt # Null /\ \A t \in link.expiresAt : t < now
\* the owner's events, availability and status in the user store: none for an
\* owner without a record or a record without the field
HasRecord(userId) == userId \in DOMAIN users
OwnerEvents(userId) ==
  IF HasRecord(userId) /\ "events" \in DOMAIN users[userId]
  THEN users[userId].events ELSE <<>>
OwnerAvailability(userId) ==
  IF HasRecord(userId) /\ "availability" \in DOMAIN users[userId]
  THEN users[userId].availability ELSE EmptyObject
OwnerStatus(userId) ==
  IF HasRecord(userId) /\ "currentStatus" \in DOMAIN users[userId]
  THEN users[userId].currentStatus ELSE JsUndefined

\* C1: once the token stored under an id has isActive = false, no issue, get,
\* listByOwner, revoke, updatePermissions, access or getProjection call leaves
\* a token with isActive = true under that id, and no access or getProjection
\* on that id succeeds.  (Stated step by step: a revoked id stays revoked.)
C1_RevocationIsTerminal ==
  [][\A id \in GenerateShareId :
       (IsRevoked(shareLinks, id) /\ ret'.op \in RegistryOps)
         => /\ IsRevoked(shareLinks', id)
            /\ (ret'.op \in AccessOps /\ ret'.shareId = id)
                 => (ret'.token = Null /\ ret'.data = Null)]_vars

\* C2: access on a token whose expiresAt is earlier than the current time
\* returns null, even when isActive is true, and leaves accessCount and
\* lastAccessed unchanged.
C2_ExpiredAccessFails ==
  [][\A id \in DOMAIN shareLinks :
       (ret'.op = "accessSharedSchedule" /\ ret'.shareId = id /\ PastExpiry(shareLinks[id]))
         => /\ ret'.token = Null
            /\ shareLinks'[id].accessCount = shareLinks[id].accessCount
            /\ shareLinks'[id].lastAccessed = shareLinks[id].lastAccessed]_vars

\* C3: a getProjection call that returns null, for whatever reason, leaves the
\* token's accessCount and lastAccessed as they were before the call.
C3_FailedProjectionDoesNotCount ==
  [][\A id \in DOMAIN shareLinks :
       (ret'.op = "getSharedScheduleData" /\ ret'.shareId = id /\ ret'.data = Null)
         => /\ id \in DOMAIN shareLinks'
            /\ shareLinks'[id].accessCount = shareLinks[id].accessCount
            /\ shareLinks'[id].lastAccessed = shareLinks[id].lastAccessed]_vars

\* C4: issue never reuses an id of the registry: after it returns, the registry
\* holds every token it held before, unchanged, and exactly one new token under
\* an id that was not present before.
C4_IssueUsesFreshId ==
  [][ret'.op = "generateShareLink"
       => /\ ret'.shareId \notin DOMAIN shareLinks
          /\ DOMAIN shareLinks' = (DOMAIN shareLinks) \cup {ret'.shareId}
          /\ \A id \in DOMAIN shareLinks :
               id \in DOMAIN shareLinks' /\ shareLinks'[id] = shareLinks[id]]_vars

\* C5: access and getProjection on a revoked token return null, however many
\* accesses succeeded before the revocation, and leave accessCount at the value
\* it had before the revocation (which revoke itself does not change).
C5_RevokedAccessFails ==
  [][\A id \in DOMAIN shareLinks :
       /\ (~shareLinks[id].isActive /\ ret'.op \in AccessOps /\ ret'.shareId = id)
            => /\ ret'.token = Null /\ ret'.data = Null /\ ~ret'.ok
               /\ id \in DOMAIN shareLinks'
               /\ shareLinks'[id].accessCount = shareLinks[id].accessCount
       /\ (ret'.op = "revokeShareLink" /\ ret'.shareId = id)
            => /\ id \in DOMAIN shareLinks'
               /\ shareLinks'[id].accessCount = shareLinks[id].accessCount]_vars

\* C5 witness: a projection was refused on a revoked token that had been
\* accessed twice before
C5_Witness ==
  /\ ret.op = "getSharedScheduleData"
  /\ IsRevoked(shareLinks, ret.shareId)
  /\ shareLinks[ret.shareId].accessCount = 2
  /\ ret.data = Null

\* C6: getProjection returns the same no-data result (null) when the token id
\* does not exist, when the token is revoked and when it is expired, and the
\* viewer's screen shows one message for the three causes.
C6_UnavailableLinkLooksTheSame ==
  (/\ ret.op \in ProjectionOps
   /\ ret.shareId # NoShareId
   /\ \/ ret.shareId \notin DOMAIN shareLinks
      \/ ~shareLinks[ret.shareId].isActive
      \/ PastExpiry(shareLinks[ret.shareId]))
    => /\ ret.data = Null
       /\ ~ret.ok
       /\ ret.op = "loadSharedSchedule" => ret.error = UnavailableMessage

\* C6 witness: the screen was loaded with an active token past its expiry
C6_Witness ==
  /\ ret.op = "loadSharedSchedule"
  /\ ret.shareId \in DOMAIN shareLinks
  /\ shareLinks[ret.shareId].isActive
  /\ PastExpiry(shareLinks[ret.shareId])
  /\ shareLinks[ret.shareId].userId \in DOMAIN users
  /\ ret.error = UnavailableMessage

\* C7: with canViewDetails = false the projection carries no owner contact
\* detail, whatever the other three permissions are, and two owners that differ
\* only in their email yield the same projection.
C7_NoContactDetailWithoutPermission ==
  /\ (ret.op \in ProjectionOps /\ ret.data # Null
        /\ ~shareLinks[ret.shareId].permissions["canViewDetails"])
       => \A d \in ret.data : d.user.email = JsNull
  /\ \A id \in DOMAIN shareLinks : \A k \in DOMAIN users :
       \A e \in Emails \cup {"other@example.com"} :
         ~shareLinks[id].permissions["canViewDetails"]
           => SharedData(shareLinks[id], [users[k] EXCEPT !.email = e])
                = SharedData(shareLinks[id], users[k])

\* C7 witness: a projection was returned under a token that grants events,
\* availability and status but not details
C7_Witness ==
  /\ ret.op = "getSharedScheduleData"
  /\ ret.data # Null
  /\ shareLinks[ret.shareId].permissions =
       [canViewEvents |-> TRUE, canViewAvailability |-> TRUE,
        canViewStatus |-> TRUE, canViewDetails |-> FALSE]
  /\ \A d \in ret.data : d.events = DemoEvents /\ d.user.email = JsNull

\* C8: a successful getProjection returns in events exactly the owner's event
\* list when canViewEvents is true and the empty list when it is false; no
\* event is partially included.
C8_EventsAllOrNothing ==
  (ret.op \in ProjectionOps /\ ret.data # Null)
    => LET link == shareLinks[ret.shareId]
       IN \A d \in ret.data :
            d.events = IF link.permissions["canViewEvents"]
                       THEN OwnerEvents(link.userId) ELSE <<>>

\* C8 witness: the owner has three events and the token does not grant them
C8_Witness ==
  /\ ret.op = "getSharedScheduleData"
  /\ ret.data # Null
  /\ ~shareLinks[ret.shareId].permissions["canViewEvents"]
  /\ OwnerEvents(shareLinks[ret.shareId].userId) = DemoEvents
  /\ \A d \in ret.data : d.events = <<>>

\* C9: a successful getProjection includes the owner's availability exactly
\* when canViewAvailability is true (the empty object otherwise) and the
\* owner's current status exactly when canViewStatus is true (null otherwise),
\* each independently of the other permissions.
C9_AvailabilityAndStatusByPermission ==
  (ret.op \in ProjectionOps /\ ret.data # Null)
    => LET link == shareLinks[ret.shareId]
           owner == link.userId
       IN \A d \in ret.data :
            /\ d.availability = IF link.permissions["canViewAvailability"]
                                THEN OwnerAvailability(owner) ELSE EmptyObject
            /\ d.currentStatus = IF link.permissions["canViewStatus"]
                                 THEN OwnerStatus(owner) ELSE JsNull

\* C9 witness: availability granted and returned, status withheld although the
\* owner has one
C9_Witness ==
  /\ ret.op = "getSharedScheduleData"
  /\ ret.data # Null
  /\ shareLinks[ret.shareId].permissions["canViewAvailability"]
  /\ ~shareLinks[ret.shareId].permissions["canViewStatus"]
  /\ OwnerStatus(shareLinks[ret.shareId].userId) = "Available"
  /\ \A d \in ret.data : d.availability = DefaultAvailability /\ d.currentStatus = JsNull

\* C10: getProjection on an existing, active, unexpired token whose owner has
\* no record in the user store returns null; a returned view is always built
\* from the owner's stored record.
C10_MissingOwnerYieldsNoData ==
  (ret.op \in ProjectionOps /\ ret.shareId \in DOMAIN shareLinks)
    => LET link == shareLinks[ret.shareId]
       IN /\ ~HasRecord(link.userId) => ret.data = Null
          /\ \A d \in ret.data :
               /\ HasRecord(link.userId)
               /\ d.user.name = users[link.userId].fullName

\* the accounts of the user store whose id is userId
AccountsWithId(userId) == {e \in DOMAIN users : users[e].id = userId}

\* C11: a token minted from the sharing screen for a signed-in registered user
\* (ownerId = that user's id) resolves to a non-null projection when presented
\* to getProjection, as long as the token is active and unexpired and the
\* account still exists in the user store.
C11_ScreenTokenResolves ==
  (/\ ret.op = "getSharedScheduleData"
   /\ ret.shareId \in DOMAIN shareLinks
   /\ shareLinks[ret.shareId].isActive
   /\ ~PastExpiry(shareLinks[ret.shareId])
   /\ AccountsWithId(shareLinks[ret.shareId].userId) # {})
    => ret.data # Null

\* C12: each successful access on an existing, active, unexpired token adds
\* exactly 1 to its accessCount, sets lastAccessed to the current time, writes
\* the change to the store and returns the updated token (so a fresh token
\* counts 0, 1, 2 on successive calls).
C12_AccessCountsByOne ==
  [][\A id \in DOMAIN shareLinks :
       (/\ ret'.op = "accessSharedSchedule" /\ ret'.shareId = id
        /\ shareLinks[id].isActive /\ ~PastExpiry(shareLinks[id]))
         => /\ id \in DOMAIN shareLinks'
            /\ shareLinks'[id] =
                 [shareLinks[id] EXCEPT !.accessCount = shareLinks[id].accessCount + 1,
                                        !.lastAccessed = {now}]
            /\ id \in DOMAIN stored' /\ stored'[id] = shareLinks'[id]
            /\ ret'.ok /\ ret'.token = {shareLinks'[id]}]_vars

\* C12 witness: the second access of a token, after the clock moved, returned
\* it with count 2 and the new time
C12_Witness ==
  /\ ret.op = "accessSharedSchedule"
  /\ ret.shareId \in DOMAIN shareLinks
  /\ ret.token = {shareLinks[ret.shareId]}
  /\ shareLinks[ret.shareId].accessCount = 2
  /\ shareLinks[ret.shareId].createdAt = 0
  /\ shareLinks[ret.shareId].lastAccessed = {1}
  /\ now = 1

MutatingOps ==
  {"generateShareLink", "revokeShareLink", "updateShareLinkPermissions",
   "accessSharedSchedule", "getSharedScheduleData"}

\* C13: for every token id, the accessCount of the token stored under that id
\* never decreases across issue, revoke, updatePermissions, access and
\* getProjection calls.
C13_AccessCountNeverDecreases ==
  [][\A id \in DOMAIN shareLinks :
       ret'.op \in MutatingOps
         => /\ id \in DOMAIN shareLinks'
            /\ shareLinks'[id].accessCount >= shareLinks[id].accessCount]_vars

WritingOps ==
  {"generateShareLink", "revokeShareLink", "updateShareLinkPermissions",
   "accessSharedSchedule"}

\* C14: when the write to the backing store fails during issue, revoke,
\* updatePermissions or access (after the call the store does not hold the
\* registry), the operation reports a failure to its caller and not its
\* normal success result (a token, or true).
C14_StoreFailureIsReported ==
  [][(ret'.op \in WritingOps /\ stored' # shareLinks')
       => (~ret'.ok /\ ret'.token = Null)]_vars

\* C15: issue returns and stores a token with ownerId equal to the given
\* owner, isActive = true, accessCount = 0, lastAccessed = null and expiresAt
\* equal to the requested expiry (null when none is given), and get returns
\* that token under the returned id immediately afterwards.
C15_IssueStoresFreshToken ==
  [][\A shareId \in StoreIds, userId \in TokenOwnerIds, expiresAt \in ExpiryChoices :
       (/\ ret'.op = "generateShareLink" /\ ret'.userId = userId
        /\ GenerateShareLink(shareId, userId, <<>>, expiresAt, TRUE))
         => /\ ret'.ok /\ ret'.shareId = shareId
            /\ \A token \in ret'.token :
                 /\ token.id = shareId
                 /\ token.userId = userId
                 /\ token.isActive
                 /\ token.accessCount = 0
                 /\ token.lastAccessed = Null
                 /\ token.expiresAt = expiresAt
            /\ shareId \in DOMAIN shareLinks' /\ ret'.token = {shareLinks'[shareId]}
            /\ shareId \in DOMAIN stored' /\ ret'.token = {stored'[shareId]}]_vars

\* C15 witness: a token was issued with an expiry for the demo account, after
\* the clock moved, and is in the registry and the store
C15_Witness ==
  /\ ret.op = "generateShareLink"
  /\ ret.userId = DemoEmail
  /\ ret.shareId \in DOMAIN shareLinks
  /\ ret.token = {shareLinks[ret.shareId]}
  /\ stored = shareLinks
  /\ shareLinks[ret.shareId].expiresAt = {0}
  /\ shareLinks[ret.shareId].createdAt = 1
  /\ shareLinks[ret.shareId].accessCount = 0

\* the default permission record, and a partial request merged over it
DefaultPermissions ==
  [canViewEvents |-> TRUE, canViewAvailability |-> TRUE,
   canViewStatus |-> TRUE, canViewDetails |-> FALSE]
MergedOverDefaults(request) ==
  [k \in PermKeys |-> IF k \in DOMAIN request THEN request[k] ELSE DefaultPermissions[k]]

\* C16: the permission record of an issued token is the total merge of the
\* requested partial permissions over the defaults: canViewEvents,
\* canViewAvailability and canViewStatus are true unless explicitly requested
\* false, canViewDetails is false unless explicitly requested true.
C16_PermissionsMergeOverDefaults ==
  [][\A shareId \in StoreIds, request \in AllPermRequests :
       (/\ ret'.op = "generateShareLink"
        /\ shareId \in DOMAIN shareLinks'
        /\ GenerateShareLink(shareId, DemoEmail, request,
                             shareLinks'[shareId].expiresAt, TRUE))
         => /\ DOMAIN shareLinks'[shareId].permissions = PermKeys
            /\ shareLinks'[shareId].permissions = MergedOverDefaults(request)
            /\ \A token \in ret'.token : token.permissions = MergedOverDefaults(request)]_vars

\* C16 witness: a token was issued whose record withholds events (requested
\* false) and grants details (requested true), the other two by default
C16_Witness ==
  /\ ret.op = "generateShareLink"
  /\ ret.shareId \in DOMAIN shareLinks
  /\ ret.token = {shareLinks[ret.shareId]}
  /\ shareLinks[ret.shareId].permissions =
       [canViewEvents |-> FALSE, canViewAvailability |-> TRUE,
        canViewStatus |-> TRUE, canViewDetails |-> TRUE]

\* C17: issue with an empty or absent ownerId is rejected as an error and adds
\* no token to the registry or the store.
C17_EmptyOwnerIsRejected ==
  [][(ret'.op = "generateShareLink" /\ ret'.userId \in {EmptyOwner, JsUndefined})
       => /\ ~ret'.ok /\ ret'.token = Null
          /\ shareLinks' = shareLinks
          /\ stored' = stored]_vars

\* C18: revoke on an existing token succeeds and leaves isActive = false,
\* whether or not the token was revoked before; it changes no field other than
\* isActive of that token and touches no other token; on an already revoked
\* token it leaves the registry and the store exactly as they were.
C18_RevokeIsIdempotent ==
  [][\A id \in DOMAIN shareLinks :
       (ret'.op = "revokeShareLink" /\ ret'.shareId = id)
         => /\ ret'.ok
            /\ DOMAIN shareLinks' = DOMAIN shareLinks
            /\ ~shareLinks'[id].isActive
            /\ [shareLinks'[id] EXCEPT !.isActive = TRUE]
                 = [shareLinks[id] EXCEPT !.isActive = TRUE]
            /\ \A other \in (DOMAIN shareLinks) \ {id} :
                 shareLinks'[other] = shareLinks[other]
            /\ ~shareLinks[id].isActive
                 => (shareLinks' = shareLinks /\ stored' = stored)]_vars

\* C18 witness: a token that had been accessed twice was revoked while another
\* token of the registry is active
C18_Witness ==
  /\ ret.op = "revokeShareLink"
  /\ ret.ok
  /\ ret.shareId \in DOMAIN shareLinks
  /\ ~shareLinks[ret.shareId].isActive
  /\ shareLinks[ret.shareId].accessCount = 2
  /\ \E other \in (DOMAIN shareLinks) \ {ret.shareId} :
       shareLinks[other].isActive /\ shareLinks[other].accessCount = 1

\* C19: updatePermissions on an existing token returns true and overwrites
\* exactly the permission fields it is given; the other permission fields and
\* isActive, accessCount, lastAccessed, ownerId, createdAt and expiresAt stay
\* as they were, so a revoked token stays revoked.
C19_UpdateOverwritesGivenFields ==
  [][\A id \in DOMAIN shareLinks, given \in SinglePermissions :
       (/\ ret'.op = "updateShareLinkPermissions" /\ ret'.shareId = id
        /\ UpdateShareLinkPermissions(id, given, TRUE))
         => /\ ret'.ok
            /\ id \in DOMAIN shareLinks'
            /\ DOMAIN shareLinks'[id].permissions = PermKeys
            /\ \A k \in PermKeys :
                 shareLinks'[id].permissions[k] =
                   IF k \in DOMAIN given THEN given[k]
                   ELSE shareLinks[id].permissions[k]
            /\ [shareLinks'[id] EXCEPT !.permissions = <<>>]
                 = [shareLinks[id] EXCEPT !.permissions = <<>>]]_vars

\* C19 witness: the permissions of a revoked token that had been accessed
\* twice were updated; it grants details, withholds events and is still revoked
C19_Witness ==
  /\ ret.op = "updateShareLinkPermissions"
  /\ ret.ok
  /\ ret.shareId \in DOMAIN shareLinks
  /\ ~shareLinks[ret.shareId].isActive
  /\ shareLinks[ret.shareId].accessCount = 2
  /\ shareLinks[ret.shareId].permissions =
       [canViewEvents |-> FALSE, canViewAvailability |-> TRUE,
        canViewStatus |-> TRUE, canViewDetails |-> TRUE]

\* C20: updatePermissions and revoke on a token id that is not in the registry
\* return false, create no record and leave the registry and the store
\* unchanged.
C20_AbsentIdIsNotFound ==
  [][(/\ ret'.op \in {"revokeShareLink", "updateShareLinkPermissions"}
      /\ ret'.shareId \notin DOMAIN shareLinks)
       => /\ ~ret'.ok
          /\ shareLinks' = shareLinks
          /\ stored' = stored]_vars

\* C21: for every token id, the ownerId and createdAt of the token stored
\* under that id never change after the token is created, across issue,
\* revoke, updatePermissions, access and getProjection calls.
C21_OwnerAndCreationAreImmutable ==
  [][\A id \in DOMAIN shareLinks :
       ret'.op \in MutatingOps
         => /\ id \in DOMAIN shareLinks'
            /\ shareLinks'[id].userId = shareLinks[id].userId
            /\ shareLinks'[id].createdAt = shareLinks[id].createdAt]_vars

\* C22: a successful getProjection reports in shareInfo.accessCount the count
\* after its own increment (1 on the first access of a fresh token), and of
\* two consecutive successful getProjection calls on the same token, with
\* nothing in between, the second returns a view equal to the first in every
\* field except shareInfo.accessCount, which is exactly 1 higher.
C22_RepeatedProjectionDiffersByCount ==
  [][(ret'.op = "getSharedScheduleData" /\ ret'.data # Null)
       => /\ ret'.shareId \in DOMAIN shareLinks
          /\ \A view \in ret'.data :
               /\ view.shareInfo.accessCount = shareLinks[ret'.shareId].accessCount + 1
               /\ view.shareInfo.accessCount = shareLinks'[ret'.shareId].accessCount
          /\ (ret.op = "getSharedScheduleData" /\ ret.data # Null
                /\ ret.shareId = ret'.shareId)
               => \A first \in ret.data, second \in ret'.data :
                    /\ [second EXCEPT !.shareInfo.accessCount = 0]
                         = [first EXCEPT !.shareInfo.accessCount = 0]
                    /\ second.shareInfo.accessCount = first.shareInfo.accessCount + 1]_vars

\* C22 witness: the second projection of the demo account's token, whose view
\* carries the three events and reports two accesses
C22_Witness ==
  /\ ret.op = "getSharedScheduleData"
  /\ ret.data # Null
  /\ \A view \in ret.data :
       /\ view.events = DemoEvents
       /\ view.shareInfo.accessCount = 2
  /\ shareLinks[ret.shareId].accessCount = 2

\* C23: get changes nothing in the registry or the store (no counter bump, no
\* lastAccessed update); for an id of the registry it returns the stored
\* record, revoked or expired or not; it answers not-found only for an id that
\* is absent.
C23_GetIsPureLookup ==
  [][ret'.op = "getShareLink"
       => /\ shareLinks' = shareLinks
          /\ stored' = stored
          /\ ret'.shareId \in DOMAIN shareLinks
               => (ret'.ok /\ ret'.token = {shareLinks[ret'.shareId]})
          /\ ~ret'.ok
               => (ret'.shareId \notin DOMAIN shareLinks /\ ret'.token = Null)]_vars

\* C23 witness: get returned a token that is revoked, past its expiry and was
\* accessed once
C23_Witness ==
  /\ ret.op = "getShareLink"
  /\ ret.ok
  /\ ret.shareId \in DOMAIN shareLinks
  /\ ret.token = {shareLinks[ret.shareId]}
  /\ ~shareLinks[ret.shareId].isActive
  /\ PastExpiry(shareLinks[ret.shareId])
  /\ shareLinks[ret.shareId].accessCount = 1

\* the ids of the registry whose token belongs to userId, and the sum of
\* their access counts
IdsOf(userId) == {id \in DOMAIN shareLinks : shareLinks[id].userId = userId}
RECURSIVE ViewsOf(_)
ViewsOf(ids) ==
  IF ids = {} THEN 0
  ELSE LET id == CHOOSE i \in ids : TRUE
       IN shareLinks[id].accessCount + ViewsOf(ids \ {id})

\* C24: listByOwner returns exactly the tokens of the registry whose ownerId
\* equals the argument, revoked ones included, and none of another owner; the
\* statistics are totalLinks = the size of that set, activeLinks = the number
\* of them with isActive = true, totalViews = the sum of their accessCount.
C24_ListAndStatsMatchRegistry ==
  /\ ret.op \in {"getUserShareLinks", "getSharingStats"}
       => /\ \A id \in DOMAIN shareLinks :
               (shareLinks[id] \in ret.links) <=> (shareLinks[id].userId = ret.userId)
          /\ \A link \in ret.links : \E id \in DOMAIN shareLinks : link = shareLinks[id]
  /\ ret.op = "getSharingStats"
       => \A stats \in ret.data :
            /\ stats.totalLinks = Cardinality(IdsOf(ret.userId))
            /\ stats.activeLinks =
                 Cardinality({id \in IdsOf(ret.userId) : shareLinks[id].isActive})
            /\ stats.totalViews = ViewsOf(IdsOf(ret.userId))

\* C24 witness: the statistics of an owner with one active token accessed
\* twice and one revoked token accessed once
C24_Witness ==
  /\ ret.op = "getSharingStats"
  /\ Cardinality(ret.links) = 2
  /\ \E link \in ret.links : ~link.isActive /\ link.accessCount = 1
  /\ \E link \in ret.links : link.isActive /\ link.accessCount = 2
  /\ ret.data = {[totalLinks |-> 2, activeLinks |-> 1, totalViews |-> 3]}

AllRegistryOps == RegistryOps \cup {"getSharingStats", "clearAllSharingData"}

\* C25: no operation of the share-link registry (issue, get, listByOwner,
\* revoke, updatePermissions, access, getProjection, bulk clear) writes to the
\* user directory: the stored user records are the same before and after it.
C25_RegistryNeverWritesUsers ==
  [][ret'.op \in AllRegistryOps => users' = users]_vars

\* C25 witness: the registry was cleared while the user store holds the demo
\* account and a registered one
C25_Witness ==
  /\ ret.op = "clearAllSharingData"
  /\ shareLinks = <<>>
  /\ DOMAIN users = Emails
  /\ users[NewEmail] = NewUser(NewEmail)
  /\ users[DemoEmail] = DemoUser

AccessOfEitherTab == {"accessSharedSchedule", "other.accessSharedSchedule"}

\* C26: with two registry instances on the same store no access increment is
\* lost: the persisted accessCount of a token equals the number of successful
\* accesses performed on it by both instances.  (Stated step by step: every
\* successful access, from either instance, raises the persisted count by 1.)
C26_NoAccessIncrementIsLost ==
  [][\A id \in DOMAIN stored :
       (ret'.op \in AccessOfEitherTab /\ ret'.shareId = id /\ ret'.ok)
         => /\ id \in DOMAIN stored'
            /\ stored'[id].accessCount = stored[id].accessCount + 1]_vars

\* C27: every operation works on the collection as persisted: once one
\* instance has completed revoke on a token (the store holds isActive =
\* false), an access by either instance on that token fails and no write
\* puts isActive = true back into the store for it.
C27_RevocationReachesOtherTab ==
  [][\A id \in DOMAIN stored :
       (~stored[id].isActive /\ ret'.op \in AccessOfEitherTab /\ ret'.shareId = id)
         => /\ ~ret'.ok /\ ret'.token = Null
            /\ id \in DOMAIN stored'
            /\ ~stored'[id].isActive]_vars

LookupOps == {"getShareLink", "accessSharedSchedule", "getSharedScheduleData"}

\* C28: the set of token ids of the registry never shrinks under issue,
\* revoke, updatePermissions, access and getProjection (a revoked token keeps
\* its record); only the bulk clear removes tokens, and after it the registry
\* in memory and the persisted collection are both empty, so that get and
\* access on any id fail.
C28_OnlyClearRemovesTokens ==
  [][/\ ret'.op # "clearAllSharingData"
          => /\ (DOMAIN shareLinks) \subseteq (DOMAIN shareLinks')
             /\ (DOMAIN stored) \subseteq (DOMAIN stored')
     /\ ret'.op = "clearAllSharingData"
          => (shareLinks' = <<>> /\ stored' = <<>>)
     /\ (ret.op = "clearAllSharingData" /\ ret'.op \in LookupOps)
          => (~ret'.ok /\ ret'.token = Null /\ ret'.data = Null)]_vars

\* C28 witness: a token accessed twice was revoked and is still in the
\* registry and in the store, with its count
C28_Witness ==
  /\ ret.op = "revokeShareLink"
  /\ ret.ok
  /\ ret.shareId \in (DOMAIN shareLinks) \cap (DOMAIN stored)
  /\ ~stored[ret.shareId].isActive
  /\ stored[ret.shareId].accessCount = 2
  /\ now = 1

\* C29: in a single registry instance whose store writes succeed, after every
\* completed operation the persisted token collection is the in-memory one,
\* so an instance constructed at that point loads exactly the same tokens.
C29_StoreMirrorsMemory ==
  /\ stored = Stringify(shareLinks)
  /\ LoadShareLinks = shareLinks

\* C29 witness: a token issued without an owner id (which the document leaves
\* out), accessed twice and then revoked
C29_Witness ==
  /\ ret.op = "revokeShareLink"
  /\ ret.ok
  /\ ret.shareId \in (DOMAIN shareLinks) \cap (DOMAIN stored)
  /\ shareLinks[ret.shareId].userId = JsUndefined
  /\ "userId" \notin DOMAIN stored[ret.shareId]
  /\ stored[ret.shareId].accessCount = 2
  /\ ~stored[ret.shareId].isActive
  /\ LoadShareLinks = shareLinks

\* C30: in every reachable state each token, in memory and in the store, has
\* lastAccessed = null exactly when its accessCount = 0, and its accessCount
\* is never negative.
C30_StampedIffCounted ==
  /\ \A id \in DOMAIN shareLinks :
       /\ shareLinks[id].accessCount >= 0
       /\ (shareLinks[id].lastAccessed = Null) <=> (shareLinks[id].accessCount = 0)
  /\ \A id \in DOMAIN stored :
       /\ stored[id].accessCount >= 0
       /\ (stored[id].lastAccessed = Null) <=> (stored[id].accessCount = 0)

\* C30 witness: a token issued at time 0 and never accessed by time 1 was
\* then accessed for the first time
C30_Witness ==
  /\ ret.op = "accessSharedSchedule"
  /\ ret.ok
  /\ shareLinks[ret.shareId].createdAt = 0
  /\ shareLinks[ret.shareId].accessCount = 1
  /\ shareLinks[ret.shareId].lastAccessed = {1}

====
